---------------------------- MODULE Spec2Model ----------------------------
(***************************************************************************)
(* A model of gpu-finder.py: the probing pipeline of main (zone listing,   *)
(* configuration check, capability filter, quota filter, per-region        *)
(* provisioning with operation polling, deletion, report) run against a    *)
(* compute provider whose long-running operations complete on their own.   *)
(*                                                                         *)
(* Python strings the program slices, searches or concatenates (machine    *)
(* type names, zone names, instance names) are sequences of one-character  *)
(* strings; names that are only compared (accelerator types, error codes)  *)
(* are plain strings.                                                      *)
(***************************************************************************)
EXTENDS Integers, Sequences, FiniteSets, TLC

(***************************************************************************)
(* Bounds of the model.                                                    *)
(***************************************************************************)
MaxGpus == 2
MaxTarget == 2
MaxPolls == 1

(***************************************************************************)
(* Python string primitives.                                               *)
(***************************************************************************)
Digits == <<"0", "1", "2", "3", "4", "5", "6", "7", "8", "9">>

IsDigit(c) == \E d \in 1..10 : Digits[d] = c

DigitVal(c) == (CHOOSE d \in 1..10 : Digits[d] = c) - 1

\* s.startswith(p)
StartsWith(s, p) == Len(s) >= Len(p) /\ SubSeq(s, 1, Len(p)) = p

\* s.find(sub): the lowest 0-based index at which sub occurs, or -1
Find(s, sub) ==
    LET hits == {i \in 0..(Len(s) - Len(sub)) : SubSeq(s, i + 1, i + Len(sub)) = sub}
    IN  IF hits = {} THEN -1 ELSE CHOOSE i \in hits : \A j \in hits : i <= j

\* One bound of a slice s[lo:hi]: a negative bound counts from the end, and
\* the result is clamped to 0..len(s).
SliceBound(n, k) ==
    LET m == IF k < 0 THEN k + n ELSE k
    IN  IF m < 0 THEN 0 ELSE IF m > n THEN n ELSE m

\* s[lo:hi]
PySlice(s, lo, hi) == SubSeq(s, SliceBound(Len(s), lo) + 1, SliceBound(Len(s), hi))

\* int(s) for a string of decimal digits; -1 stands for the ValueError that
\* int raises on the empty string and on a string with a character that is
\* no digit (the strings of this model carry no sign, blank or underscore).
RECURSIVE DigitsValue(_)
DigitsValue(s) ==
    IF s = <<>> THEN 0
    ELSE 10 * DigitsValue(SubSeq(s, 1, Len(s) - 1)) + DigitVal(s[Len(s)])

PyInt(s) ==
    IF s # <<>> /\ \A i \in 1..Len(s) : IsDigit(s[i]) THEN DigitsValue(s) ELSE -1

\* str(n) for n >= 0
RECURSIVE PyStr(_)
PyStr(n) ==
    IF n < 10 THEN <<Digits[n + 1]>>
    ELSE PyStr(n \div 10) \o <<Digits[(n % 10) + 1]>>

(***************************************************************************)
(* check_gpu_config                                                        *)
(***************************************************************************)
\* machine_type[(machine_type.find('highgpu')+8):(len(machine_type)-1)]
gpus_in_machine_type(machine_type) ==
    PySlice(machine_type,
            Find(machine_type, <<"h", "i", "g", "h", "g", "p", "u">>) + 8,
            Len(machine_type) - 1)

\* "ok" when the function returns, "mismatch" when it raises the
\* configuration-mismatch Exception, "ValueError" when int() raises.
check_gpu_config(machine_type, number_of_gpus) ==
    IF StartsWith(machine_type, <<"a", "2">>)
    THEN IF PyInt(gpus_in_machine_type(machine_type)) = -1 THEN "ValueError"
         ELSE IF number_of_gpus # PyInt(gpus_in_machine_type(machine_type))
              THEN "mismatch"
              ELSE "ok"
    ELSE "ok"

(***************************************************************************)
(* Names.                                                                  *)
(***************************************************************************)
A2HighGpu1g == <<"a", "2", "-", "h", "i", "g", "h", "g", "p", "u", "-", "1", "g">>
A2HighGpu2g == <<"a", "2", "-", "h", "i", "g", "h", "g", "p", "u", "-", "2", "g">>
A2MegaGpu16g == <<"a", "2", "-", "m", "e", "g", "a", "g", "p", "u", "-", "1", "6", "g">>
N1Standard4 == <<"n", "1", "-", "s", "t", "d", "-", "4">>

Us1a == <<"u", "s", "1", "-", "a">>
Us1b == <<"u", "s", "1", "-", "b">>
Us1c == <<"u", "s", "1", "-", "c">>
Eu1a == <<"e", "u", "1", "-", "a">>
Eu1b == <<"e", "u", "1", "-", "b">>
As1a == <<"a", "s", "1", "-", "a">>

BaseName == <<"g">>

CapacityCodes ==
    {"QUOTA_EXCEEDED", "ZONE_RESOURCE_POOL_EXHAUSTED_WITH_DETAILS",
     "ZONE_RESOURCE_POOL_EXHAUSTED"}

\* The error lists a finished operation may carry; <<>> is a result with no
\* 'error' key.
ErrorLists ==
    {<<"QUOTA_EXCEEDED">>, <<"ZONE_RESOURCE_POOL_EXHAUSTED">>,
     <<"ZONE_RESOURCE_POOL_EXHAUSTED_WITH_DETAILS">>, <<"PERMISSION_DENIED">>,
     <<"QUOTA_EXCEEDED", "PERMISSION_DENIED">>,
     <<"PERMISSION_DENIED", "QUOTA_EXCEEDED">>}

Outcomes == {<<>>} \cup ErrorLists

(***************************************************************************)
(* Sequence helpers.                                                       *)
(***************************************************************************)
\* The items of all pages of a listing, in the order the paging loop sees them.
RECURSIVE Flatten(_)
Flatten(pages) ==
    IF pages = <<>> THEN <<>> ELSE Head(pages) \o Flatten(Tail(pages))

\* x in lst, for a Python list
InList(x, lst) == \E i \in 1..Len(lst) : lst[i] = x

(***************************************************************************)
(* get_zone_info                                                           *)
(***************************************************************************)
\* zone['name'][0:len(zone['name'])-2]
RegionOf(name) == PySlice(name, 0, Len(name) - 2)

RECURSIVE UpZones(_)
UpZones(items) ==
    IF items = <<>> THEN <<>>
    ELSE (IF Head(items).status = "UP"
          THEN <<[region |-> RegionOf(Head(items).name), zone |-> Head(items).name]>>
          ELSE <<>>) \o UpZones(Tail(items))

get_zone_info(zonePages) == UpZones(Flatten(zonePages))

\* one zones().list request per page
ZoneListRequests(zonePages) == [p \in 1..Len(zonePages) |-> [kind |-> "zones.list"]]

\* main: [z for z in zone_info if z['zone'] in gpu_config['instance_config']['zone']],
\* taken only when the configured list is non-empty
\* A variant of SelectZones that takes every listed zone.
SelectZones_IgnoreAllow(zone_info, allow) == zone_info

SelectZones(zone_info, allow) ==
    IF allow # <<>> THEN SelectSeq(zone_info, LAMBDA z : InList(z.zone, allow))
    ELSE zone_info

(***************************************************************************)
(* check_machine_type_and_accelerator                                      *)
(***************************************************************************)
\* A variant of WithAccelerator without the test of the name.
WithAccelerator_NoNameTest(machine, machine_type, gpu_type) ==
    /\ "accelerators" \in DOMAIN machine
    /\ machine.accelerators[1] = gpu_type

\* The branch of line 60: the entry lists accelerators, has the requested
\* name, and its first accelerator is the requested type.
WithAccelerator(machine, machine_type, gpu_type) ==
    /\ "accelerators" \in DOMAIN machine
    /\ machine.name = machine_type
    /\ machine.accelerators[1] = gpu_type

\* The branch of line 70.
NameMatches(machine, machine_type) == machine.name = machine_type

\* What one machine-type entry of a zone contributes to available_zones.
MachineRecord(machine, zone, machine_type, gpu_type) ==
    IF WithAccelerator(machine, machine_type, gpu_type)
    THEN <<[machine_type |-> machine.name, region |-> zone.region, zone |-> zone.zone,
            guest_cpus |-> machine.guestCpus, accelerators |-> machine.accelerators]>>
    ELSE IF NameMatches(machine, machine_type)
    THEN <<[machine_type |-> machine.name, region |-> zone.region, zone |-> zone.zone,
            guest_cpus |-> machine.guestCpus]>>
    ELSE <<>>

RECURSIVE MachineRecords(_, _, _, _)
MachineRecords(items, zone, machine_type, gpu_type) ==
    IF items = <<>> THEN <<>>
    ELSE MachineRecord(Head(items), zone, machine_type, gpu_type)
         \o MachineRecords(Tail(items), zone, machine_type, gpu_type)

\* available_zones after the loop over zones (before the emptiness test)
RECURSIVE check_machine_type_and_accelerator(_, _, _, _)
check_machine_type_and_accelerator(machinePages, machine_type, gpu_type, zones) ==
    IF zones = <<>> THEN <<>>
    ELSE MachineRecords(Flatten(machinePages[Head(zones).zone]), Head(zones),
                        machine_type, gpu_type)
         \o check_machine_type_and_accelerator(machinePages, machine_type, gpu_type,
                                               Tail(zones))

\* A variant of PerZoneRequests that gives up after the first zone.
PerZoneRequests_FirstZoneOnly(kind, pagesOf, zones) ==
    IF zones = <<>> THEN <<>>
    ELSE [p \in 1..Len(pagesOf[Head(zones).zone]) |->
              [kind |-> kind, zone |-> Head(zones).zone]]

\* one request per page of every zone's listing, zones in list order
RECURSIVE PerZoneRequests(_, _, _)
PerZoneRequests(kind, pagesOf, zones) ==
    IF zones = <<>> THEN <<>>
    ELSE [p \in 1..Len(pagesOf[Head(zones).zone]) |->
              [kind |-> kind, zone |-> Head(zones).zone]]
         \o PerZoneRequests(kind, pagesOf, Tail(zones))

(***************************************************************************)
(* get_accelerator_quota                                                   *)
(***************************************************************************)
\* A variant of QuotaSuffices with the comparison turned around.
QuotaSuffices_Reversed(requested_gpus, maximumCardsPerInstance) ==
    requested_gpus >= maximumCardsPerInstance

\* line 94
QuotaSuffices(requested_gpus, maximumCardsPerInstance) ==
    requested_gpus <= maximumCardsPerInstance

\* line 93
AcceleratorNamed(accelerator, gpu_type) == accelerator.name = gpu_type

AcceleratorRecord(accelerator, i, gpu_type, requested_gpus) ==
    IF AcceleratorNamed(accelerator, gpu_type)
       /\ QuotaSuffices(requested_gpus, accelerator.maximumCardsPerInstance)
    THEN <<[region |-> i.region, zone |-> i.zone, machine_type |-> i.machine_type,
            guest_cpus |-> i.guest_cpus, name |-> accelerator.name,
            maximum_cards |-> accelerator.maximumCardsPerInstance]>>
    ELSE <<>>

RECURSIVE AcceleratorRecords(_, _, _, _)
AcceleratorRecords(items, i, gpu_type, requested_gpus) ==
    IF items = <<>> THEN <<>>
    ELSE AcceleratorRecord(Head(items), i, gpu_type, requested_gpus)
         \o AcceleratorRecords(Tail(items), i, gpu_type, requested_gpus)

\* The items of a zone's accelerator listing; a response without an 'items'
\* key contributes nothing (line 91).
RECURSIVE AcceleratorItems(_)
AcceleratorItems(pages) ==
    IF pages = <<>> THEN <<>>
    ELSE (IF "items" \in DOMAIN Head(pages) THEN Head(pages).items ELSE <<>>)
         \o AcceleratorItems(Tail(pages))

\* accelerator_list after the loop over zones (before the emptiness test)
RECURSIVE get_accelerator_quota(_, _, _, _)
get_accelerator_quota(accPages, gpu_type, zone_list, requested_gpus) ==
    IF zone_list = <<>> THEN <<>>
    ELSE AcceleratorRecords(AcceleratorItems(accPages[Head(zone_list).zone]),
                            Head(zone_list), gpu_type, requested_gpus)
         \o get_accelerator_quota(accPages, gpu_type, Tail(zone_list), requested_gpus)

(***************************************************************************)
(* main, lines 301-306: group the approved zones by region, regions in     *)
(* order of first appearance (dict insertion order).                       *)
(***************************************************************************)
RECURSIVE GroupByRegion(_, _)
GroupByRegion(zones, acc) ==
    IF zones = <<>> THEN acc
    ELSE LET z == Head(zones)
             hit == {k \in 1..Len(acc) : acc[k].region = z.region}
         IN  IF hit = {}
             THEN GroupByRegion(Tail(zones),
                                Append(acc, [region |-> z.region, zones |-> <<z>>]))
             ELSE LET k == CHOOSE k \in hit : TRUE
                  IN  GroupByRegion(Tail(zones),
                          [acc EXCEPT ![k].zones = Append(acc[k].zones, z)])

(***************************************************************************)
(* create_instances / create_single_instance helpers                       *)
(***************************************************************************)
\* line 117
InstanceName_NoZone(base, created_instances, zone) ==
    base \o <<"-">> \o PyStr(Len(created_instances) + 1)

InstanceName(base, created_instances, zone) ==
    base \o <<"-">> \o PyStr(Len(created_instances) + 1) \o <<"-">> \o zone

\* A variant of IsCapacityError that looks for a capacity code anywhere in
\* the error list.
IsCapacityError_AnyCode(errors) == \E k \in 1..Len(errors) : errors[k] \in CapacityCodes

\* line 248
IsCapacityError(errors) == errors[1] \in CapacityCodes

\* A variant of TargetReached that counts the instance still to come.
TargetReached_OneEarly(created_instances, number_of_instances) ==
    Len(created_instances) + 1 >= number_of_instances

\* line 122
TargetReached(created_instances, number_of_instances) ==
    Len(created_instances) >= number_of_instances

\* A variant of DeleteFailed that classifies the error as creation does.
DeleteFailed_OnlyFatal(errors) == errors # <<>> /\ errors[1] \notin CapacityCodes

\* A variant of DeleteFailed that swallows every error.
DeleteFailed_Swallowed(errors) == FALSE

\* line 284
DeleteFailed(errors) == errors # <<>>

(***************************************************************************)
(* The provider's catalogs.  A machine-type entry lists 'accelerators'     *)
(* only for the accelerator-optimized types; an accelerator listing of a   *)
(* zone without accelerators has no 'items' key.                           *)
(***************************************************************************)
Machine(name, cpus) == [name |-> name, guestCpus |-> cpus]

MachineAcc(name, cpus, accs) == [name |-> name, guestCpus |-> cpus, accelerators |-> accs]

Acc(name, max) == [name |-> name, maximumCardsPerInstance |-> max]

ProviderA ==
    [zonePages |->
        << <<[name |-> Eu1a, status |-> "UP"], [name |-> Eu1b, status |-> "DOWN"],
             [name |-> As1a, status |-> "UP"]>>,
           <<[name |-> Us1a, status |-> "UP"], [name |-> Us1b, status |-> "UP"],
             [name |-> Us1c, status |-> "UP"]>> >>,
     machinePages |->
        (Us1a :> << <<Machine(N1Standard4, 4), MachineAcc(A2HighGpu1g, 12, <<"a100">>)>>,
                    <<MachineAcc(A2HighGpu2g, 24, <<"a100">>),
                      MachineAcc(A2MegaGpu16g, 96, <<"a100">>)>> >>)
        @@ (Us1b :> << <<MachineAcc(A2HighGpu1g, 12, <<"a100">>),
                         MachineAcc(A2HighGpu2g, 24, <<"a100">>),
                         Machine(N1Standard4, 4)>> >>)
        @@ (Us1c :> << <<MachineAcc(A2HighGpu1g, 12, <<"a100">>),
                         Machine(N1Standard4, 4)>> >>)
        @@ (Eu1a :> << <<Machine(N1Standard4, 4)>>,
                       <<MachineAcc(A2HighGpu1g, 12, <<"a100">>),
                         MachineAcc(A2HighGpu2g, 24, <<"a100">>)>> >>)
        @@ (Eu1b :> << <<MachineAcc(A2HighGpu1g, 12, <<"a100">>),
                         Machine(N1Standard4, 4)>> >>)
        @@ (As1a :> << <<Machine(N1Standard4, 4)>> >>),
     accPages |->
        (Us1a :> << [items |-> <<Acc("t4", 2), Acc("a100", 2)>>] >>)
        @@ (Us1b :> << [items |-> <<Acc("a100", 2)>>] >>)
        @@ (Us1c :> << [items |-> <<Acc("a100", 1)>>], [items |-> <<Acc("t4", 1)>>] >>)
        @@ (Eu1a :> << [items |-> <<Acc("t4", 1)>>], [items |-> <<Acc("a100", 2)>>] >>)
        @@ (Eu1b :> << [items |-> <<Acc("a100", 2)>>] >>)
        @@ (As1a :> << [kind |-> "compute#acceleratorTypeList"] >>)]

\* A provider whose zone listing is one page that interleaves two regions,
\* and that offers a2-highgpu-2g nowhere.
ProviderB ==
    [zonePages |->
        << <<[name |-> Eu1a, status |-> "UP"], [name |-> As1a, status |-> "UP"],
             [name |-> Eu1b, status |-> "UP"]>> >>,
     machinePages |->
        (Eu1a :> << <<MachineAcc(A2HighGpu1g, 12, <<"a100">>),
                      Machine(N1Standard4, 4)>> >>)
        @@ (As1a :> << <<Machine(N1Standard4, 4)>> >>)
        @@ (Eu1b :> << <<Machine(N1Standard4, 4)>>,
                       <<MachineAcc(A2HighGpu1g, 12, <<"a100">>)>> >>),
     accPages |->
        (Eu1a :> << [items |-> <<Acc("a100", 1), Acc("t4", 1)>>] >>)
        @@ (As1a :> << [items |-> <<Acc("t4", 1)>>] >>)
        @@ (Eu1b :> << [items |-> <<Acc("t4", 1)>>], [items |-> <<Acc("a100", 1)>>] >>)]

Providers == {ProviderA, ProviderB}

\* The configurations of gpu-config.json the model runs: instance_config's
\* name, machine_type, gpu_type, number_of_gpus and zone, and
\* number_of_instances.
Configs ==
    [name : {BaseName},
     machine_type : {A2HighGpu1g, A2HighGpu2g, A2MegaGpu16g, N1Standard4},
     gpu_type : {"a100", "t4"},
     number_of_gpus : 1..MaxGpus,
     number_of_instances : 0..MaxTarget,
     zone : {<<>>, <<Us1b, Us1a, Eu1b, Eu1a>>}]

(***************************************************************************)
(* State.                                                                  *)
(***************************************************************************)
VARIABLES
    config,                \* gpu_config
    provider,              \* the provider's catalogs
    pc,                    \* where main is
    error,                 \* the exception that ended the run, or "none"
    requests,              \* the requests sent so far, in order (status polls
                           \* are counted in nGets)
    compute_zones, available_zones, zones_in_quota, regional_zone_lists,
    regionIdx,             \* position of main's loop over regions
    zoneIdx,               \* position of create_instances' loop over zones
    created_instances,
    attempts,              \* outcome of each creation of this call, in order
    instance_details,
    delIdx,                \* position of delete_instances' loop
    op,                    \* the operation last submitted, as the provider holds it
    nGets,                 \* zoneOperations().get requests sent for op
    result,                \* the response of the last zoneOperations().get
    live,                  \* the instances of this run that exist
    confirmed,             \* the instances whose insert finished without error,
                           \* in the order in which they came to exist
    regional_summary,
    table_data             \* the rows handed to tabulate

vars ==
    <<config, provider, pc, error, requests, compute_zones, available_zones,
      zones_in_quota, regional_zone_lists, regionIdx, zoneIdx, created_instances,
      attempts, instance_details, delIdx, op, nGets, result, live, confirmed,
      regional_summary, table_data>>

pipelineVars == <<compute_zones, available_zones, zones_in_quota, regional_zone_lists>>

loopVars == <<regionIdx, zoneIdx, created_instances, attempts, instance_details, delIdx>>

opVars == <<op, nGets, result, live, confirmed>>

reportVars == <<regional_summary, table_data>>

InitWith(c, p) ==
    /\ config = c
    /\ provider = p
    /\ pc = "start"
    /\ error = "none"
    /\ requests = <<>>
    /\ compute_zones = <<>>
    /\ available_zones = <<>>
    /\ zones_in_quota = <<>>
    /\ regional_zone_lists = <<>>
    /\ regionIdx = 1
    /\ zoneIdx = 1
    /\ created_instances = <<>>
    /\ attempts = <<>>
    /\ instance_details = <<>>
    /\ delIdx = 1
    /\ op = [kind |-> "none"]
    /\ nGets = 0
    /\ result = [status |-> "none"]
    /\ live = {}
    /\ confirmed = <<>>
    /\ regional_summary = <<>>
    /\ table_data = <<>>

Init == \E c \in Configs, p \in Providers : InitWith(c, p)

\* An uncaught exception ends the run.
Raise(e) ==
    /\ pc' = "aborted"
    /\ error' = e

(***************************************************************************)
(* main, lines 290-299: the pipeline stages.                               *)
(***************************************************************************)
\* lines 290-296: both branches list the zones; the first keeps the
\* configured ones.
GetZoneInfo ==
    /\ pc = "start"
    /\ requests' = requests \o ZoneListRequests(provider.zonePages)
    /\ compute_zones' = SelectZones(get_zone_info(provider.zonePages), config.zone)
    /\ pc' = "check_gpu_config"
    /\ UNCHANGED <<config, provider, error, available_zones, zones_in_quota,
                   regional_zone_lists, loopVars, opVars, reportVars>>

\* line 297
CheckGpuConfig ==
    /\ pc = "check_gpu_config"
    /\ LET r == check_gpu_config(config.machine_type, config.number_of_gpus)
       IN  IF r = "ok"
           THEN pc' = "check_machine_type" /\ error' = error
           ELSE Raise(r)
    /\ UNCHANGED <<config, provider, requests, pipelineVars, loopVars, opVars,
                   reportVars>>

\* line 298
CheckMachineTypeAndAccelerator ==
    /\ pc = "check_machine_type"
    /\ requests' = requests \o PerZoneRequests("machineTypes.list",
                                               provider.machinePages, compute_zones)
    /\ LET found == check_machine_type_and_accelerator(provider.machinePages,
                        config.machine_type, config.gpu_type, compute_zones)
       IN  IF found = <<>>
           THEN Raise("no_machine_types") /\ available_zones' = available_zones
           ELSE pc' = "get_accelerator_quota" /\ error' = error
                /\ available_zones' = found
    /\ UNCHANGED <<config, provider, compute_zones, zones_in_quota,
                   regional_zone_lists, loopVars, opVars, reportVars>>

\* line 299
GetAcceleratorQuota ==
    /\ pc = "get_accelerator_quota"
    /\ requests' = requests \o PerZoneRequests("acceleratorTypes.list",
                                               provider.accPages, available_zones)
    /\ LET found == get_accelerator_quota(provider.accPages, config.gpu_type,
                        available_zones, config.number_of_gpus)
       IN  IF found = <<>>
           THEN Raise("no_accelerators") /\ zones_in_quota' = zones_in_quota
           ELSE pc' = "group" /\ error' = error /\ zones_in_quota' = found
    /\ UNCHANGED <<config, provider, compute_zones, available_zones,
                   regional_zone_lists, loopVars, opVars, reportVars>>

\* lines 301-308
GroupRegions ==
    /\ pc = "group"
    /\ regional_zone_lists' = GroupByRegion(zones_in_quota, <<>>)
    /\ regionIdx' = 1
    /\ pc' = "regions"
    /\ UNCHANGED <<config, provider, error, requests, compute_zones, available_zones,
                   zones_in_quota, zoneIdx, created_instances, attempts,
                   instance_details, delIdx, opVars, reportVars>>

(***************************************************************************)
(* main, lines 309-325, with create_instances and delete_instances.        *)
(***************************************************************************)
CurrentRegion == regional_zone_lists[regionIdx]

CurrentZone == CurrentRegion.zones[zoneIdx]

\* line 310 with the call of line 312
StartRegion ==
    /\ pc = "regions"
    /\ regionIdx <= Len(regional_zone_lists)
    /\ created_instances' = <<>>
    /\ attempts' = <<>>
    /\ zoneIdx' = 1
    /\ pc' = "create_loop"
    /\ UNCHANGED <<config, provider, error, requests, pipelineVars, regionIdx,
                   instance_details, delIdx, opVars, reportVars>>

\* create_instances returns created (lines 124 and 126) to main, line 312
ReturnCreated(created) ==
    /\ instance_details' = created
    /\ pc' = "after_create"

\* lines 116-118 and create_single_instance up to the insert of lines 232-235
SubmitInsert ==
    /\ pc = "create_loop"
    /\ zoneIdx <= Len(CurrentRegion.zones)
    /\ LET instance_name ==
               InstanceName(config.name, created_instances, CurrentZone.zone)
       IN  /\ requests' = requests \o
                  <<[kind |-> "images.getFromFamily"],
                    [kind |-> "instances.insert", zone |-> CurrentZone.zone,
                     name |-> instance_name]>>
           /\ op' = [kind |-> "insert", status |-> "RUNNING", errors |-> <<>>,
                     name |-> instance_name, zone |-> CurrentZone.zone]
    /\ nGets' = 0
    /\ pc' = "create_poll"
    /\ UNCHANGED <<config, provider, error, pipelineVars, loopVars, result, live, confirmed,
                   reportVars>>

\* lines 125-126: the loop over zones ran out
ZonesExhausted ==
    /\ pc = "create_loop"
    /\ zoneIdx > Len(CurrentRegion.zones)
    /\ ReturnCreated(created_instances)
    /\ UNCHANGED <<config, provider, error, requests, pipelineVars, regionIdx, zoneIdx,
                   created_instances, attempts, delIdx, opVars, reportVars>>

\* The provider finishes the pending operation, with or without an error.
\* An insert without error makes the instance exist, a delete without error
\* ends it.
ProviderCompletes ==
    /\ op.kind # "none"
    /\ op.status = "RUNNING"
    /\ \E o \in Outcomes :
          /\ op' = [op EXCEPT !.status = "DONE", !.errors = o]
          /\ live' = IF o # <<>> THEN live
                     ELSE IF op.kind = "insert"
                          THEN live \cup {[name |-> op.name, zone |-> op.zone]}
                          ELSE live \ {[name |-> op.name, zone |-> op.zone]}
          /\ confirmed' = IF o = <<>> /\ op.kind = "insert"
                          THEN Append(confirmed, [name |-> op.name, zone |-> op.zone])
                          ELSE confirmed
    /\ UNCHANGED <<config, provider, pc, error, requests, pipelineVars, loopVars,
                   nGets, result, reportVars>>

\* The response of zoneOperations().get for a finished operation: it has an
\* 'error' key only when the operation failed.
DoneResult(errors) ==
    IF errors = <<>> THEN [status |-> "DONE"]
    ELSE [status |-> "DONE", error |-> errors]

\* The response of zoneOperations().get for the operation as the provider
\* holds it.
Response(o) ==
    IF o.status = "RUNNING" THEN [status |-> "RUNNING"] ELSE DoneResult(o.errors)

\* A variant of StatusDone that takes any non-empty status for completion.
StatusDone_Truthy(res) == res.status # ""

\* lines 244 and 282: result['status'] == 'DONE'
StatusDone(res) == res.status = "DONE"

\* lines 238-244 and 276-282: a get that finds the operation still running
\* A variant of PollRunning that gives up after MaxPolls polls.
PollRunning_GivesUp ==
    /\ pc \in {"create_poll", "delete_poll"}
    /\ ~StatusDone(Response(op))
    /\ nGets <= MaxPolls
    /\ nGets' = nGets + 1
    /\ result' = Response(op)
    /\ IF nGets < MaxPolls THEN pc' = pc /\ error' = error
       ELSE Raise(IF pc = "create_poll" THEN "create_error" ELSE "delete_error")
    /\ UNCHANGED <<config, provider, requests, pipelineVars, loopVars, op,
                   live, confirmed, reportVars>>

PollRunning ==
    /\ pc \in {"create_poll", "delete_poll"}
    /\ ~StatusDone(Response(op))
    /\ nGets < MaxPolls
    /\ nGets' = nGets + 1
    /\ result' = Response(op)
    /\ UNCHANGED <<config, provider, pc, error, requests, pipelineVars, loopVars, op,
                   live, confirmed, reportVars>>

\* lines 119-124 after create_single_instance returned: created is the list
\* after the append, if any
AfterAttempt(created) ==
    IF TargetReached(created, config.number_of_instances)
    THEN ReturnCreated(created) /\ zoneIdx' = zoneIdx
    ELSE /\ zoneIdx' = zoneIdx + 1
         /\ pc' = "create_loop"
         /\ instance_details' = instance_details

\* lines 244, 253-259 and 119-124: DONE without error
CreateSucceeded ==
    /\ pc = "create_poll"
    /\ StatusDone(Response(op))
    /\ op.errors = <<>>
    /\ nGets' = nGets + 1
    /\ result' = Response(op)
    /\ created_instances' = Append(created_instances,
                                   [name |-> op.name, zone |-> op.zone])
    /\ attempts' = Append(attempts, "OK")
    /\ AfterAttempt(created_instances')
    /\ UNCHANGED <<config, provider, error, requests, pipelineVars, regionIdx, delIdx,
                   op, live, confirmed, reportVars>>

\* lines 244-250 and 119-124: DONE with an error of the capacity class
CreateSkipped ==
    /\ pc = "create_poll"
    /\ StatusDone(Response(op))
    /\ op.errors # <<>>
    /\ IsCapacityError(op.errors)
    /\ nGets' = nGets + 1
    /\ result' = Response(op)
    /\ attempts' = Append(attempts, op.errors[1])
    /\ AfterAttempt(created_instances)
    /\ UNCHANGED <<config, provider, error, requests, pipelineVars, regionIdx,
                   created_instances, delIdx, op, live, confirmed, reportVars>>

\* lines 244-252: DONE with any other error
CreateFailed ==
    /\ pc = "create_poll"
    /\ StatusDone(Response(op))
    /\ op.errors # <<>>
    /\ ~IsCapacityError(op.errors)
    /\ nGets' = nGets + 1
    /\ result' = Response(op)
    /\ attempts' = Append(attempts, op.errors[1])
    /\ Raise("create_error")
    /\ UNCHANGED <<config, provider, requests, pipelineVars, regionIdx, zoneIdx,
                   created_instances, instance_details, delIdx, op, live, confirmed, reportVars>>

\* lines 319-325
AppendSummary ==
    regional_summary' = Append(regional_summary,
        [region |-> CurrentRegion.region, zones_attempted |-> CurrentRegion.zones,
         instances_created |-> instance_details])

\* A variant of DeleteCount that stops one instance short.
DeleteCount_OffByOne(instances) == Len(instances) - 1

\* line 264: range(len(instances))
DeleteCount(instances) == Len(instances)

\* line 313: something was created, delete_instances is called
StartDelete ==
    /\ pc = "after_create"
    /\ instance_details # <<>>
    /\ delIdx' = 1
    /\ pc' = "delete_loop"
    /\ UNCHANGED <<config, provider, error, requests, pipelineVars, regionIdx, zoneIdx,
                   created_instances, attempts, instance_details, opVars, reportVars>>

\* lines 313 and 319-325: nothing was created
SkipDelete ==
    /\ pc = "after_create"
    /\ instance_details = <<>>
    /\ AppendSummary
    /\ regionIdx' = regionIdx + 1
    /\ pc' = "regions"
    /\ UNCHANGED <<config, provider, error, requests, pipelineVars, zoneIdx,
                   created_instances, attempts, instance_details, delIdx, opVars,
                   table_data>>

\* A variant of DeleteTarget that takes the instances from the end.
DeleteTarget_Reversed(instances, i) == instances[Len(instances) + 1 - i]

\* line 265: instances[i], i counted from 1 here
DeleteTarget(instances, i) == instances[i]

\* lines 264-273
SubmitDelete ==
    /\ pc = "delete_loop"
    /\ delIdx <= DeleteCount(instance_details)
    /\ LET instance == DeleteTarget(instance_details, delIdx)
       IN  /\ requests' = Append(requests,
                  [kind |-> "instances.delete", zone |-> instance.zone,
                   name |-> instance.name])
           /\ op' = [kind |-> "delete", status |-> "RUNNING", errors |-> <<>>,
                     name |-> instance.name, zone |-> instance.zone]
    /\ nGets' = 0
    /\ pc' = "delete_poll"
    /\ UNCHANGED <<config, provider, error, pipelineVars, loopVars, result, live, confirmed,
                   reportVars>>

\* lines 282-286: DONE without error, on to the next instance
DeleteSucceeded ==
    /\ pc = "delete_poll"
    /\ StatusDone(Response(op))
    /\ ~DeleteFailed(op.errors)
    /\ nGets' = nGets + 1
    /\ result' = Response(op)
    /\ delIdx' = delIdx + 1
    /\ pc' = "delete_loop"
    /\ UNCHANGED <<config, provider, error, requests, pipelineVars, regionIdx, zoneIdx,
                   created_instances, attempts, instance_details, op, live, confirmed,
                   reportVars>>

\* lines 282-285: DONE with an error
DeleteRaised ==
    /\ pc = "delete_poll"
    /\ StatusDone(Response(op))
    /\ DeleteFailed(op.errors)
    /\ nGets' = nGets + 1
    /\ result' = Response(op)
    /\ Raise("delete_error")
    /\ UNCHANGED <<config, provider, requests, pipelineVars, loopVars, op, live, confirmed,
                   reportVars>>

\* delete_instances returns; lines 319-325
FinishRegion ==
    /\ pc = "delete_loop"
    /\ delIdx > DeleteCount(instance_details)
    /\ AppendSummary
    /\ regionIdx' = regionIdx + 1
    /\ pc' = "regions"
    /\ UNCHANGED <<config, provider, error, requests, pipelineVars, zoneIdx,
                   created_instances, attempts, instance_details, delIdx, opVars,
                   table_data>>

\* A variant of TableRows that reports one instance per region at most.
RECURSIVE TableRows_FirstPerRegion(_)
TableRows_FirstPerRegion(summary) ==
    IF summary = <<>> THEN <<>>
    ELSE (IF Head(summary).instances_created = <<>> THEN <<>>
          ELSE <<<<Head(summary).region, Head(summary).instances_created[1].name,
                   Head(summary).instances_created[1].zone>>>>)
         \o TableRows_FirstPerRegion(Tail(summary))

\* lines 330-333
RECURSIVE TableRows(_)
TableRows(summary) ==
    IF summary = <<>> THEN <<>>
    ELSE [k \in 1..Len(Head(summary).instances_created) |->
              <<Head(summary).region, Head(summary).instances_created[k].name,
                Head(summary).instances_created[k].zone>>]
         \o TableRows(Tail(summary))

\* lines 329-336: the loop over regions is over
Report ==
    /\ pc = "regions"
    /\ regionIdx > Len(regional_zone_lists)
    /\ table_data' = TableRows(regional_summary)
    /\ pc' = "done"
    /\ UNCHANGED <<config, provider, error, requests, pipelineVars, loopVars, opVars,
                   regional_summary>>

Next ==
    \/ GetZoneInfo
    \/ CheckGpuConfig
    \/ CheckMachineTypeAndAccelerator
    \/ GetAcceleratorQuota
    \/ GroupRegions
    \/ StartRegion
    \/ SubmitInsert
    \/ ZonesExhausted
    \/ ProviderCompletes
    \/ PollRunning
    \/ CreateSucceeded
    \/ CreateSkipped
    \/ CreateFailed
    \/ StartDelete
    \/ SkipDelete
    \/ SubmitDelete
    \/ DeleteSucceeded
    \/ DeleteRaised
    \/ FinishRegion
    \/ Report

Spec == Init /\ [][Next]_vars

\* The steps of the program itself: it is the only thread and runs on.
ProgramStep ==
    \/ GetZoneInfo \/ CheckGpuConfig \/ CheckMachineTypeAndAccelerator
    \/ GetAcceleratorQuota \/ GroupRegions \/ StartRegion \/ SubmitInsert
    \/ ZonesExhausted \/ PollRunning \/ CreateSucceeded \/ CreateSkipped
    \/ CreateFailed \/ StartDelete \/ SkipDelete \/ SubmitDelete
    \/ DeleteSucceeded \/ DeleteRaised \/ FinishRegion \/ Report

\* The runs in which the program keeps running and every submitted
\* operation eventually reports DONE.
FairSpec == Spec /\ WF_vars(ProgramStep) /\ WF_vars(ProviderCompletes)

(***************************************************************************)
(* The pipeline stages alone, over a family of accelerator catalogs: two   *)
(* zones that offer every machine type, each with any of the catalogs      *)
(* below.                                                                  *)
(***************************************************************************)
MaxCards == 2

AccCatalogs ==
    {<< [kind |-> "compute#acceleratorTypeList"] >>}
    \cup {<< [items |-> <<Acc(n, m)>>] >> : n \in {"a100", "t4"}, m \in 1..MaxCards}
    \cup {<< [items |-> <<Acc("a100", m1)>>], [items |-> <<Acc("t4", m2)>>] >> :
             m1 \in 1..MaxCards, m2 \in 1..MaxCards}

PipelineProviders ==
    {[zonePages |->
          << <<[name |-> Us1a, status |-> "UP"], [name |-> Us1b, status |-> "UP"]>> >>,
      machinePages |->
          [z \in {Us1a, Us1b} |->
              << <<Machine(N1Standard4, 4), MachineAcc(A2HighGpu1g, 12, <<"a100">>),
                   MachineAcc(A2HighGpu2g, 24, <<"a100">>)>> >>],
      accPages |-> (Us1a :> ca) @@ (Us1b :> cb)] : ca \in AccCatalogs, cb \in AccCatalogs}

PipelineInit ==
    \E c \in {x \in Configs : x.number_of_instances = MaxTarget /\ x.zone = <<>>},
       p \in PipelineProviders : InitWith(c, p)

PipelineNext ==
    \/ GetZoneInfo
    \/ CheckGpuConfig
    \/ CheckMachineTypeAndAccelerator
    \/ GetAcceleratorQuota

PipelineSpec == PipelineInit /\ [][PipelineNext]_vars

(***************************************************************************)
(* The zone listing and the capability filter alone, over a family of      *)
(* machine-type catalogs: two zones, each with any of the catalogs below.  *)
(***************************************************************************)
MachineCatalogs ==
    {<< <<Machine(N1Standard4, 4)>> >>,
     << <<MachineAcc(A2HighGpu1g, 12, <<"a100">>)>> >>,
     << <<Machine(N1Standard4, 4)>>,
        <<MachineAcc(A2HighGpu1g, 12, <<"a100">>),
          MachineAcc(A2HighGpu2g, 24, <<"a100">>)>> >>,
     << <<MachineAcc(A2HighGpu2g, 24, <<"a100">>), Machine(N1Standard4, 4)>> >>,
     << <<Machine(A2HighGpu1g, 12)>> >>,
     << <<MachineAcc(N1Standard4, 4, <<"t4">>)>> >>}

CapabilityProviders ==
    {[zonePages |->
          << <<[name |-> Us1a, status |-> "UP"], [name |-> Us1b, status |-> "UP"]>> >>,
      machinePages |-> (Us1a :> ma) @@ (Us1b :> mb),
      accPages |->
          [z \in {Us1a, Us1b} |-> << [items |-> <<Acc("a100", 2), Acc("t4", 2)>>] >>]] :
        ma \in MachineCatalogs, mb \in MachineCatalogs}

CapabilityInit ==
    \E c \in {x \in Configs : x.number_of_instances = MaxTarget /\ x.zone = <<>>},
       p \in CapabilityProviders : InitWith(c, p)

CapabilityNext ==
    \/ GetZoneInfo
    \/ CheckGpuConfig
    \/ CheckMachineTypeAndAccelerator

CapabilitySpec == CapabilityInit /\ [][CapabilityNext]_vars

(***************************************************************************)
(* Properties.                                                             *)
(***************************************************************************)
Last(seq) == seq[Len(seq)]

InsertRequest(name, zone) == [kind |-> "instances.insert", zone |-> zone, name |-> name]

DeleteRequest(name, zone) == [kind |-> "instances.delete", zone |-> zone, name |-> name]

\* C1: every instance of the run that exists lies in the region main is
\* processing, and whenever an insert has been submitted every existing
\* instance lies in the region of that insert: the instances of a region
\* are gone before the first insert of a later region.
C1_OneRegionAlive ==
    /\ \A i \in live :
          /\ regionIdx \in 1..Len(regional_zone_lists)
          /\ RegionOf(i.zone) = CurrentRegion.region
    /\ op.kind = "insert" => \A i \in live : RegionOf(i.zone) = RegionOf(op.zone)

\* C1 witness: an instance was created and deleted in the first region and
\* an instance of the second region exists.
C1_Witness ==
    /\ regionIdx = 2
    /\ Len(regional_summary) = 1
    /\ regional_summary[1].instances_created # <<>>
    /\ live # {}

\* C2: when the run has ended with the configuration-mismatch error, no
\* request of any kind has been sent to the provider.
C2_MismatchBeforeAnyRequest ==
    error = "mismatch" => requests = <<>> /\ nGets = 0

\* C3: once a creation has been seen to end with an error whose first code
\* is no capacity code, the run is aborted with that error, the failed
\* insert is the last request sent, every insert sent has been answered,
\* and no report exists.
C3_FatalCreateAborts ==
    (attempts # <<>> /\ Last(attempts) \notin (CapacityCodes \cup {"OK"})) =>
        /\ pc = "aborted"
        /\ error = "create_error"
        /\ op.kind = "insert"
        /\ Last(requests) = InsertRequest(op.name, op.zone)
        /\ regionIdx = Len(regional_summary) + 1
        /\ table_data = <<>>

\* C3 witness: the run was aborted by a creation error while a zone of the
\* region and a later region were still untried.
C3_Witness ==
    /\ error = "create_error"
    /\ zoneIdx < Len(CurrentRegion.zones)
    /\ regionIdx < Len(regional_zone_lists)

\* C4: after a creation that ended with a capacity error, while a zone of
\* the region is left, nothing is recorded for the failed zone, the run is
\* not aborted, and create_instances is at (or has submitted the insert
\* of) the next zone.
C4_CapacityErrorTriesNextZone ==
    (/\ pc \notin {"start", "check_gpu_config", "check_machine_type",
                   "get_accelerator_quota", "group", "regions", "done"}
     /\ attempts # <<>>
     /\ Last(attempts) \in CapacityCodes
     /\ Len(attempts) < Len(CurrentRegion.zones)) =>
        /\ pc \in {"create_loop", "create_poll"}
        /\ zoneIdx = Len(attempts) + 1
        /\ error = "none"

\* C5: the list create_instances returns is no longer than
\* number_of_instances and no longer than the list of zones it was given.
C5_AtMostTarget ==
    pc = "after_create" =>
        /\ Len(instance_details) <= config.number_of_instances
        /\ Len(instance_details) <= Len(CurrentRegion.zones)

C7_DeleteErrorAborts ==
    (op.kind = "delete" /\ nGets > 0 /\ "error" \in DOMAIN result) =>
        /\ pc = "aborted"
        /\ error = "delete_error"
        /\ Last(requests) = DeleteRequest(op.name, op.zone)
        /\ op.name = instance_details[delIdx].name
        /\ regionIdx = Len(regional_summary) + 1
        /\ table_data = <<>>

\* C7 witness: a delete ended with a capacity code while another instance
\* of the region and another region were left.
C7_Witness ==
    /\ error = "delete_error"
    /\ result.error[1] \in CapacityCodes
    /\ delIdx < Len(instance_details)
    /\ regionIdx < Len(regional_zone_lists)

\* The case of C8: a region of 3 approved zones, 2 instances wanted, the
\* first creation ended with QUOTA_EXCEEDED and the second succeeded.
ScenarioC ==
    /\ pc \in {"create_loop", "create_poll", "after_create", "delete_loop",
               "delete_poll", "regions", "done"}
    /\ config.number_of_instances = 2
    /\ Len(attempts) >= 2
    /\ attempts[1] = "QUOTA_EXCEEDED"
    /\ attempts[2] = "OK"

\* The region ScenarioC is about: main's current one, or the one it has
\* just summarised.
ScenarioRegion ==
    IF pc \in {"regions", "done"} THEN regional_zone_lists[regionIdx - 1]
    ELSE CurrentRegion

SecondZoneRecord ==
    [name |-> config.name \o <<"-", "1", "-">> \o ScenarioRegion.zones[2].zone,
     zone |-> ScenarioRegion.zones[2].zone]

\* C8 as claimed: in that case create_instances returns exactly the record
\* of the second zone.
C8_ReturnsSecondZoneOnly ==
    (ScenarioC /\ Len(ScenarioRegion.zones) = 3 /\ pc = "after_create") =>
        instance_details = <<SecondZoneRecord>>

\* C8: in that case the third zone is tried as well; when its creation ends
\* with a capacity error, create_instances returns exactly the record of
\* the second zone, and that instance has been deleted when main leaves the
\* region, before any report.
C8_ThirdZoneDecides ==
    (ScenarioC /\ Len(ScenarioRegion.zones) = 3) =>
        /\ pc \in {"after_create", "delete_loop", "delete_poll", "regions", "done"} =>
              Len(attempts) = 3
        /\ (pc = "after_create" /\ attempts[3] \in CapacityCodes) =>
              instance_details = <<SecondZoneRecord>>
        /\ (pc \in {"regions", "done"} /\ attempts[3] \in CapacityCodes) =>
              /\ SecondZoneRecord \notin live
              /\ Last(requests) = DeleteRequest(SecondZoneRecord.name,
                                                SecondZoneRecord.zone)
              /\ Last(regional_summary).instances_created = <<SecondZoneRecord>>

\* C8 witness: the case ended with a capacity error in the third zone and
\* the report was produced.
C8_Witness ==
    /\ ScenarioC
    /\ Len(ScenarioRegion.zones) = 3
    /\ Len(attempts) = 3
    /\ attempts[3] \in CapacityCodes
    /\ pc = "done"
    /\ table_data # <<>>

\* C9: an insert is pending only while fewer than number_of_instances
\* instances have been created by this call.
C9_InsertOnlyBelowTarget ==
    pc = "create_poll" => Len(created_instances) < config.number_of_instances

\* C10: every zone get_accelerator_quota returned has, in its accelerator
\* catalog, an entry named gpu_type whose maximumCardsPerInstance is at
\* least number_of_gpus, and that maximum is the one recorded.
C10_QuotaApprovedZonesQualify ==
    \A k \in 1..Len(zones_in_quota) :
        LET z == zones_in_quota[k]
            pages == provider.accPages[z.zone]
        IN  /\ config.number_of_gpus <= z.maximum_cards
            /\ \E p \in 1..Len(pages) :
                  /\ "items" \in DOMAIN pages[p]
                  /\ \E j \in 1..Len(pages[p].items) :
                        /\ pages[p].items[j].name = config.gpu_type
                        /\ pages[p].items[j].maximumCardsPerInstance = z.maximum_cards

\* C10 witness: of two capable zones one was approved and the other, whose
\* catalog has the accelerator with too small a maximum, was not.
C10_Witness ==
    /\ pc = "group"
    /\ Len(available_zones) = 2
    /\ Len(zones_in_quota) = 1
    /\ \E k \in 1..2 :
          LET pages == provider.accPages[available_zones[k].zone]
          IN  /\ "items" \in DOMAIN pages[1]
              /\ pages[1].items[1].name = config.gpu_type
              /\ pages[1].items[1].maximumCardsPerInstance < config.number_of_gpus

\* The number of listing requests of a kind sent for a zone.
ListCount(kind, zone) ==
    Cardinality({k \in 1..Len(requests) :
                    requests[k].kind = kind /\ requests[k].zone = zone})

\* The zone's machine-type catalog has an entry named as configured.
OffersMachineType(zone) ==
    \E p \in 1..Len(provider.machinePages[zone]) :
        \E j \in 1..Len(provider.machinePages[zone][p]) :
            provider.machinePages[zone][p][j].name = config.machine_type

\* The zone's accelerator catalog has an entry of the configured type with
\* a sufficient maximum.
OffersAccelerator(zone) ==
    \E p \in 1..Len(provider.accPages[zone]) :
        /\ "items" \in DOMAIN provider.accPages[zone][p]
        /\ \E j \in 1..Len(provider.accPages[zone][p].items) :
              /\ provider.accPages[zone][p].items[j].name = config.gpu_type
              /\ provider.accPages[zone][p].items[j].maximumCardsPerInstance
                     >= config.number_of_gpus

CapabilityScanned ==
    /\ pc \notin {"start", "check_gpu_config", "check_machine_type"}
    /\ error \notin {"mismatch", "ValueError"}

QuotaScanned ==
    /\ CapabilityScanned
    /\ pc # "get_accelerator_quota"
    /\ error # "no_machine_types"

NoProvisioningRequest ==
    \A k \in 1..Len(requests) :
        requests[k].kind \in {"zones.list", "machineTypes.list", "acceleratorTypes.list"}

\* C11: the run ends with the no-machine-types error exactly when no
\* candidate zone offers the machine type, and with the no-accelerators
\* error exactly when no capable zone offers the accelerator with a
\* sufficient maximum; by then every page of every zone of that stage has
\* been requested, and no insert was or will be sent.
C11_EmptyStageAborts ==
    /\ CapabilityScanned =>
          (error = "no_machine_types" <=>
              \A k \in 1..Len(compute_zones) : ~OffersMachineType(compute_zones[k].zone))
    /\ QuotaScanned =>
          (error = "no_accelerators" <=>
              \A k \in 1..Len(available_zones) : ~OffersAccelerator(available_zones[k].zone))
    /\ error = "no_machine_types" =>
          \A k \in 1..Len(compute_zones) :
              ListCount("machineTypes.list", compute_zones[k].zone)
                  = Len(provider.machinePages[compute_zones[k].zone])
    /\ error = "no_accelerators" =>
          \A k \in 1..Len(available_zones) :
              ListCount("acceleratorTypes.list", available_zones[k].zone)
                  = Len(provider.accPages[available_zones[k].zone])
    /\ error \in {"no_machine_types", "no_accelerators"} =>
          /\ pc = "aborted"
          /\ NoProvisioningRequest
          /\ op.kind = "none"
          /\ confirmed = <<>>

\* C11 witness: the quota stage scanned several capable zones and found
\* none that qualifies.
C11_Witness ==
    /\ error = "no_accelerators"
    /\ Len(available_zones) >= 2

\* C12: every zone check_machine_type_and_accelerator returned has, in its
\* machine-type catalog, an entry named exactly as configured, and the
\* record carries that name.
C12_CapableZonesOfferMachineType ==
    \A k \in 1..Len(available_zones) :
        /\ OffersMachineType(available_zones[k].zone)
        /\ available_zones[k].machine_type = config.machine_type

\* C12 witness: two zones were returned, one through an entry that lists
\* the configured accelerator and one through an entry that lists none or
\* another one.
C12_Witness ==
    /\ Len(available_zones) = 2
    /\ available_zones[1].zone # available_zones[2].zone
    /\ "accelerators" \in DOMAIN available_zones[1]
    /\ "accelerators" \notin DOMAIN available_zones[2]

IsInsert(k) == requests[k].kind = "instances.insert"

IsDelete(k) == requests[k].kind = "instances.delete"

\* C13: no two insert requests of a run carry the same instance name.
C13_InsertNamesUnique ==
    \A i \in DOMAIN requests : \A j \in DOMAIN requests :
        (i < j /\ IsInsert(i) /\ IsInsert(j)) => requests[i].name # requests[j].name

\* C13 witness: two insert requests were made with the same ordinal, the
\* first of their region in both cases.
C13_Witness ==
    \E i \in DOMAIN requests : \E j \in DOMAIN requests :
        /\ i < j /\ IsInsert(i) /\ IsInsert(j)
        /\ RegionOf(requests[i].zone) # RegionOf(requests[j].zone)
        /\ requests[i].name = InstanceName(config.name, <<>>, requests[i].zone)
        /\ requests[j].name = InstanceName(config.name, <<>>, requests[j].zone)

ConfirmedRows ==
    [k \in 1..Len(confirmed) |->
        <<RegionOf(confirmed[k].zone), confirmed[k].name, confirmed[k].zone>>]

\* C14: at the report the rows are the (region, name, zone) triples of the
\* instances whose creation completed without error, one row each in that
\* order; a delete request was made for each of them and none exists any more.
C14_ReportIsTheConfirmedInstances ==
    pc = "done" =>
        /\ table_data = ConfirmedRows
        /\ live = {}
        /\ \A k \in 1..Len(confirmed) :
               InList(DeleteRequest(confirmed[k].name, confirmed[k].zone), requests)

\* C14 witness: a report with two rows of one region and a row of another.
C14_Witness ==
    /\ pc = "done"
    /\ Len(table_data) >= 3
    /\ table_data[1][1] = table_data[2][1]
    /\ table_data[3][1] # table_data[1][1]

\* The quota-approved zones in the order main and create_instances walk
\* them: region after region, each region's zones in list order.
ZoneOrder ==
    Flatten([r \in 1..Len(regional_zone_lists) |->
                [k \in 1..Len(regional_zone_lists[r].zones) |->
                    regional_zone_lists[r].zones[k].zone]])

PositionOf(zone) == CHOOSE k \in 1..Len(ZoneOrder) : ZoneOrder[k] = zone

NextInsert(i, j) ==
    /\ i < j /\ IsInsert(i) /\ IsInsert(j)
    /\ \A k \in (i + 1)..(j - 1) : ~IsInsert(k)

CreationFailed(i) ==
    ~InList([name |-> requests[i].name, zone |-> requests[i].zone], confirmed)

\* C15: each quota-approved zone receives at most one insert request, and
\* the insert request that follows a creation that failed without ending
\* the run targets the next zone in list order.
C15_NoRetryNextZone ==
    /\ \A i \in DOMAIN requests : \A j \in DOMAIN requests :
           (i < j /\ IsInsert(i) /\ IsInsert(j)) => requests[i].zone # requests[j].zone
    /\ \A i \in DOMAIN requests : \A j \in DOMAIN requests :
           (NextInsert(i, j) /\ CreationFailed(i)) =>
               PositionOf(requests[j].zone) = PositionOf(requests[i].zone) + 1

ObservedDone ==
    /\ op.status = "DONE"
    /\ nGets >= 1
    /\ result.status = "DONE"

Submits ==
    /\ Len(requests') > Len(requests)
    /\ Last(requests').kind \in {"instances.insert", "instances.delete"}

\* C16: an insert or delete request is submitted only when there is no
\* earlier operation or the earlier one has been observed DONE, and a record
\* is returned only in the step that observes its operation DONE; an
\* operation that is not yet DONE keeps the program in its poll loop.
C16_OneOperationAtATime ==
    [][/\ Submits => (op.kind = "none" \/ ObservedDone)
       /\ Len(created_instances') > Len(created_instances) =>
              (op.status = "DONE" /\ result'.status = "DONE" /\ nGets' >= 1)
       /\ (op.kind # "none" /\ op.status = "RUNNING") =>
              pc \in {"create_poll", "delete_poll"}]_vars

\* C16 witness: a second delete is pending after two creations and a first
\* deletion.
C16_Witness ==
    /\ op.kind = "delete"
    /\ op.status = "RUNNING"
    /\ Len(confirmed) = 2
    /\ Cardinality({k \in DOMAIN requests : IsDelete(k)}) = 2

\* C17: when every operation eventually reports DONE the run terminates;
\* while an operation is not DONE the program stays in its poll loop and
\* submits nothing, however many polls it has made.
C17_TerminatesIffOperationsComplete ==
    /\ <>(pc \in {"done", "aborted"})
    /\ [][(op.kind # "none" /\ op.status = "RUNNING") =>
              (pc' = pc /\ pc \in {"create_poll", "delete_poll"}
               /\ requests' = requests /\ error' = error)]_vars

\* C17 witness: the run ended with the report after an operation that was
\* polled MaxPolls times before it was DONE.
C17_Witness ==
    /\ pc = "done"
    /\ table_data # <<>>
    /\ nGets = MaxPolls + 1

\* The GPU count the name of an accelerator-optimized machine type encodes.
EncodedGpus == (A2HighGpu1g :> 1) @@ (A2HighGpu2g :> 2) @@ (A2MegaGpu16g :> 16)

\* C18: check_gpu_config accepts an a2 machine type whose encoded count is
\* the requested one, raises the mismatch error when it is not, raises no
\* other error, and accepts every other machine type.
C18_GpuConfigByEncodedCount ==
    pc \notin {"start", "check_gpu_config"} =>
        IF config.machine_type \in DOMAIN EncodedGpus
           /\ EncodedGpus[config.machine_type] # config.number_of_gpus
        THEN error = "mismatch"
        ELSE error \notin {"mismatch", "ValueError"}

ListedUp(zone) ==
    \E p \in 1..Len(provider.zonePages) : \E j \in 1..Len(provider.zonePages[p]) :
        /\ provider.zonePages[p][j].name = zone
        /\ provider.zonePages[p][j].status = "UP"

Allowed(zone) == config.zone # <<>> => InList(zone, config.zone)

\* C19: every insert request targets a zone that is listed UP, allowed,
\* offers the machine type and offers the accelerator with a sufficient
\* maximum; every machine-type or accelerator-type listing is for an
\* allowed zone.
C19_InsertOnlyInQualifiedZones ==
    \A k \in DOMAIN requests :
        /\ IsInsert(k) =>
              /\ ListedUp(requests[k].zone)
              /\ Allowed(requests[k].zone)
              /\ OffersMachineType(requests[k].zone)
              /\ OffersAccelerator(requests[k].zone)
        /\ requests[k].kind \in {"machineTypes.list", "acceleratorTypes.list"} =>
              /\ ListedUp(requests[k].zone)
              /\ Allowed(requests[k].zone)

\* C19 witness: an insert was requested under an allow-list that excludes
\* a zone which is UP and offers both the machine type and the accelerator.
C19_Witness ==
    /\ config.zone # <<>>
    /\ \E k \in DOMAIN requests : IsInsert(k)
    /\ \E z \in {Us1c, As1a} :
          ListedUp(z) /\ ~Allowed(z) /\ OffersMachineType(z) /\ OffersAccelerator(z)

DeleteRequests == SelectSeq(requests, LAMBDA r : r.kind = "instances.delete")

\* C20: the delete requests of a run name, in order and once each, the
\* first instances whose creation was confirmed.
C20_DeletesFollowConfirmedCreations ==
    /\ Len(DeleteRequests) <= Len(confirmed)
    /\ \A k \in 1..Len(DeleteRequests) :
           /\ DeleteRequests[k].name = confirmed[k].name
           /\ DeleteRequests[k].zone = confirmed[k].zone
    /\ \A i \in 1..Len(DeleteRequests) : \A j \in 1..Len(DeleteRequests) :
           i < j => DeleteRequests[i] # DeleteRequests[j]

\* C20 witness: two instances of one region were deleted after a creation
\* in that region had failed.
C20_Witness ==
    /\ Len(DeleteRequests) >= 2
    /\ RegionOf(DeleteRequests[1].zone) = RegionOf(DeleteRequests[2].zone)
    /\ \E k \in DOMAIN requests : IsInsert(k) /\ CreationFailed(k)
                                   /\ RegionOf(requests[k].zone) = RegionOf(DeleteRequests[1].zone)
                                   /\ op.kind = "delete"

=============================================================================
